---- MODULE Spec2Model ----
(***************************************************************************)
(* Model of the LeGM take-submission session: the TakeAnalyzer component   *)
(* (frontend/components/take-analyzer.tsx), the API gateway                *)
(* (frontend/lib/api.ts) and the verdict badge it renders                  *)
(* (frontend/components/verdict-badge.tsx).                                *)
(*                                                                         *)
(* React state is modelled as a store (the value the next render will      *)
(* show) plus the closure of the handleSubmit callback created by the last *)
(* committed render (useCallback deps [input, loading]).  A re-render is a *)
(* step of its own: state updates are scheduled, never applied inside the  *)
(* handler that requests them.                                             *)
(***************************************************************************)
EXTENDS Integers, Sequences, FiniteSets, TLC

(* ---------------------------- bounds ----------------------------------- *)
MaxRequests == 2      \* analyze requests issued in one session

(* ---------------------------- values ----------------------------------- *)
None == <<>>
Some(x) == <<x>>

Whitespace == {" ", "\n"}

\* the texts the user puts into the textarea: empty, white space only,
\* plain, padded with white space, and a second plain text
Inputs ==
  { <<>>, <<" ">>, <<"a">>, <<" ", "a", "\n">>, <<"b">> }

\* String.prototype.trim: strip leading and trailing white space
RECURSIVE TrimStart(_)
TrimStart(s) ==
  IF s = <<>> THEN s
  ELSE IF Head(s) \in Whitespace THEN TrimStart(Tail(s)) ELSE s

RECURSIVE TrimEnd(_)
TrimEnd(s) ==
  IF s = <<>> THEN s
  ELSE IF s[Len(s)] \in Whitespace THEN TrimEnd(SubSeq(s, 1, Len(s) - 1)) ELSE s

Trim(s) == TrimEnd(TrimStart(s))

\* type Verdict = "trash" | "valid" | "mid"
Verdict == {"trash", "valid", "mid"}

\* verdictConfig: the three presentation profiles of the badge
verdictConfig ==
  [trash |-> "TRASH", valid |-> "VALID", mid |-> "MID"]

\* what the analyze endpoint may put in a JSON body: any verdict string
WireVerdicts == Verdict \cup {"goat"}
TakeIds == {7}
WireRecords == [verdict : WireVerdicts, take_id : TakeIds]

Statuses == {200, 500}
BodyTexts == {"boom"}
TransportMessages == {"Failed to fetch"}
JsonParseMessage == "Unexpected end of JSON input"

\* what the network can do to one fetch: reject, or answer with a response
\* whose text() and json() readers may each fail
Rejections ==
  [kind : {"reject"}, message : TransportMessages]
Responses ==
  [kind : {"response"}, status : {200}, json : {None} \cup {Some(r) : r \in WireRecords}]
  \cup
  [kind : {"response"}, status : Statuses \ {200}, text : {None} \cup {Some(b) : b \in BodyTexts}]
Outcomes == Rejections \cup Responses

(* ---------------------------- api.ts ----------------------------------- *)
Throw(msg) == [ok |-> FALSE, isError |-> TRUE, message |-> msg]
Return(v) == [ok |-> TRUE, value |-> v]

ResOk(res) == res.status \in 200..299

\* request() falling back to an empty body text
request_EmptyFallback(o) ==
  IF o.kind = "reject" THEN Throw(o.message)
  ELSE IF ~ResOk(o) THEN
    LET body == IF o.text = None THEN "" ELSE o.text[1]
    IN  Throw("API " \o ToString(o.status) \o ": " \o body)
  ELSE IF o.json = None THEN Throw(JsonParseMessage)
  ELSE Return(o.json[1])

\* request<T>(path, options): fetch, status check, res.json()
request(o) ==
  IF o.kind = "reject" THEN Throw(o.message)
  ELSE IF ~ResOk(o) THEN
    LET body == IF o.text = None THEN "Unknown error" ELSE o.text[1]
    IN  Throw("API " \o ToString(o.status) \o ": " \o body)
  ELSE IF o.json = None THEN Throw(JsonParseMessage)
  ELSE Return(o.json[1])

\* analyzeTake(take): body = JSON.stringify({ take })
analyzeTake(take) == [take |-> take]

(* ------------------------ take-analyzer.tsx ---------------------------- *)
VARIABLES
  input,        \* useState("")
  loading,      \* useState(false)
  currentTake,  \* useState<string | null>(null)
  error,        \* useState<string | null>(null)
  history,      \* useState<HistoryEntry[]>([])
  closure,      \* input and loading captured by the committed handleSubmit
  scheduled,    \* a re-render is scheduled
  crashed,      \* a render threw; the component tree is unmounted
  raised,       \* an exception escaped handleSubmit
  issued,       \* the analyze requests issued so far, in order of issue
  fate,         \* per request: the state of its promise
  origin,       \* per history entry: the request that appended it
  errored,      \* the requests whose failure was written to error
  errorReq,     \* the request whose failure wrote the current error, or 0
  lastEvent,    \* the step taken last
  discarded,    \* the page was left; the component is unmounted
  fn,           \* the pure function evaluated last, "none" in a session
  arg,          \* its arguments
  out           \* its result

calc == <<fn, arg, out>>
vars == <<input, loading, currentTake, error, history, closure, scheduled,
          crashed, raised, issued, fate, origin, errored, errorReq, lastEvent,
          discarded, fn, arg, out>>

Ids == 1..Len(issued)

\* the promise of a request: pending, fulfilled with a JSON value, or rejected
Pending == [st |-> "inflight", json |-> None]
Fulfilled(v) == [st |-> "ok", json |-> Some(v)]
Rejected == [st |-> "failed", json |-> None]

InFlight == {i \in Ids : fate[i].st = "inflight"}

Event(op, id, ok) == [op |-> op, id |-> id, ok |-> ok]

Init ==
  /\ input = <<>>
  /\ loading = FALSE
  /\ currentTake = None
  /\ error = None
  /\ history = <<>>
  /\ closure = [input |-> <<>>, loading |-> FALSE]
  /\ scheduled = FALSE
  /\ crashed = FALSE
  /\ raised = FALSE
  /\ issued = <<>>
  /\ fate = <<>>
  /\ origin = <<>>
  /\ errored = {}
  /\ errorReq = 0
  /\ lastEvent = Event("init", 0, FALSE)
  /\ discarded = FALSE
  /\ fn = "none"
  /\ arg = None
  /\ out = None

\* textarea onChange: setInput(e.target.value)
Type(v) ==
  /\ ~crashed
  /\ ~discarded
  /\ v # input
  /\ input' = v
  /\ scheduled' = TRUE
  /\ lastEvent' = Event("type", 0, FALSE)
  /\ UNCHANGED <<loading, currentTake, error, history, closure, crashed,
                 raised, issued, fate, origin, errored, errorReq>>
  /\ UNCHANGED <<discarded, calc>>

\* the guard without its emptiness test: if (loading) return
Rejects_LoadingOnly(text, isLoading) == isLoading

\* the guard of handleSubmit: if (!text || loading) return
Rejects(text, isLoading) == text = <<>> \/ isLoading

\* the state updates before the await, without setError(null)
Begin_KeepsError(st, text) ==
  [st EXCEPT !.input = <<>>, !.currentTake = Some(text), !.loading = TRUE]

\* handleSubmit between its guard and its await: the four state updates
Begin(st, text) ==
  [st EXCEPT !.input = <<>>, !.currentTake = Some(text), !.loading = TRUE,
             !.error = None]

\* handleSubmit up to its await: reads input and loading from its closure
Submit ==
  /\ ~crashed
  /\ ~discarded
  /\ UNCHANGED <<discarded, calc>>
  /\ LET text == Trim(closure.input) IN
     IF Rejects(text, closure.loading)
     THEN /\ lastEvent' = Event("submit", 0, FALSE)
          /\ UNCHANGED <<input, loading, currentTake, error, history, closure,
                         scheduled, crashed, raised, issued, fate, origin,
                         errored, errorReq>>
     ELSE /\ Len(issued) < MaxRequests
          /\ LET st == [input |-> input, currentTake |-> currentTake,
                        loading |-> loading, error |-> error]
                 new == Begin(st, text)
             IN  /\ input' = new.input
                 /\ currentTake' = new.currentTake
                 /\ loading' = new.loading
                 /\ error' = new.error
                 /\ errorReq' = IF new.error = None THEN 0 ELSE errorReq
          /\ issued' = Append(issued, [text |-> text,
                                       body |-> analyzeTake(text),
                                       oldErr |-> errorReq])
          /\ fate' = Append(fate, Pending)
          /\ scheduled' = TRUE
          /\ lastEvent' = Event("submit", Len(issued) + 1, TRUE)
          /\ UNCHANGED <<history, closure, crashed, raised, origin, errored>>

\* the error message of the catch clause
ErrMessage(res) == IF res.isError THEN res.message ELSE "Analysis failed"

\* try / catch / finally that puts the new entry in front: [entry, ...prev]
Settle_Prepend(st, text, res) ==
  LET tried ==
        IF res.ok
        THEN [st EXCEPT !.history = <<[take |-> text, result |-> res.value]>> \o @]
        ELSE [st EXCEPT !.error = Some(ErrMessage(res))]
  IN  [tried EXCEPT !.loading = FALSE, !.currentTake = None]

\* try / catch with the resets at the end of try instead of in finally
Settle_NoFinally(st, text, res) ==
  IF res.ok
  THEN [st EXCEPT !.history = Append(@, [take |-> text, result |-> res.value]),
                  !.loading = FALSE, !.currentTake = None]
  ELSE [st EXCEPT !.error = Some(ErrMessage(res))]

\* try / catch / finally whose catch puts the failed text back: setInput(text)
Settle_Requeue(st, text, res) ==
  LET tried ==
        IF res.ok
        THEN [st EXCEPT !.history = Append(@, [take |-> text, result |-> res.value])]
        ELSE [st EXCEPT !.error = Some(ErrMessage(res)), !.input = text]
  IN  [tried EXCEPT !.loading = FALSE, !.currentTake = None]

\* handleSubmit whose finally block clears loading only
Settle_KeepsCurrentTake(st, text, res) ==
  LET tried ==
        IF res.ok
        THEN [st EXCEPT !.history = Append(@, [take |-> text, result |-> res.value])]
        ELSE [st EXCEPT !.error = Some(ErrMessage(res))]
  IN  [tried EXCEPT !.loading = FALSE]

\* handleSubmit after its await: try / catch / finally
Settle(st, text, res) ==
  LET tried ==
        IF res.ok
        THEN [st EXCEPT !.history = Append(@, [take |-> text, result |-> res.value])]
        ELSE [st EXCEPT !.error = Some(ErrMessage(res))]
  IN  [tried EXCEPT !.loading = FALSE, !.currentTake = None]

\* state setters that also write to a component that is no longer mounted
Commit_Always(alive, st, new) == new

\* the state setters of useState: updates of an unmounted component are dropped
Commit(alive, st, new) == IF alive THEN new ELSE st

\* the response of request i arrives and the handler that awaits it resumes
Resolve(i, o) ==
  /\ i \in InFlight
  /\ LET res == request(o)
         st == [history |-> history, error |-> error, loading |-> loading,
                currentTake |-> currentTake, raised |-> raised,
                input |-> input]
         new == Commit(~crashed /\ ~discarded, st, Settle(st, issued[i].text, res))
     IN  /\ history' = new.history
         /\ input' = new.input
         /\ error' = new.error
         /\ loading' = new.loading
         /\ currentTake' = new.currentTake
         /\ raised' = new.raised
         /\ origin' = IF Len(new.history) > Len(history)
                      THEN Append(origin, i) ELSE origin
         /\ errored' = IF ~crashed /\ ~discarded /\ ~res.ok /\ new.error # None
                       THEN errored \cup {i} ELSE errored
         /\ errorReq' = IF ~crashed /\ ~discarded /\ ~res.ok /\ new.error # None
                        THEN i ELSE errorReq
         /\ fate' = [fate EXCEPT ![i] = IF res.ok THEN Fulfilled(res.value)
                                         ELSE Rejected]
         /\ scheduled' = (scheduled \/ (~crashed /\ ~discarded))
         /\ lastEvent' = Event("resolve", i, res.ok)
  /\ UNCHANGED <<closure, crashed, issued, discarded, calc>>

\* VerdictBadge: verdictConfig[verdict], then config.bg
BadgeThrows(verdict) == verdict \notin DOMAIN verdictConfig

\* a list key made of the take id alone: key={entry.result.take_id}
Key_IdOnly(entry, i) == ToString(entry.result.take_id)

\* the list key of history.map((entry, i) => ...): `${take_id}-${i}`
Key(entry, i) == ToString(entry.result.take_id) \o "-" \o ToString(i)

\* the keys of the rendered list, i counting from 0
Keys == [k \in 1..Len(history) |-> Key(history[k], k - 1)]

\* a render of TakeAnalyzer: a new handleSubmit closure, one badge per entry
Render ==
  /\ ~crashed
  /\ ~discarded
  /\ scheduled
  /\ UNCHANGED <<discarded, calc>>
  /\ scheduled' = FALSE
  /\ IF \E k \in 1..Len(history) : BadgeThrows(history[k].result.verdict)
     THEN crashed' = TRUE /\ UNCHANGED closure
     ELSE crashed' = FALSE /\ closure' = [input |-> input, loading |-> loading]
  /\ lastEvent' = Event("render", 0, FALSE)
  /\ UNCHANGED <<input, loading, currentTake, error, history, raised, issued,
                 fate, origin, errored, errorReq>>

Next ==
  \/ \E v \in Inputs : Type(v)
  \/ Submit
  \/ \E i \in 1..MaxRequests, o \in Outcomes : Resolve(i, o)
  \/ Render

Spec == Init /\ [][Next]_vars

\* the page is left (navigation away from the home page): React unmounts
\* TakeAnalyzer; handleSubmit registers no cleanup and aborts no request
Unmount ==
  /\ ~crashed
  /\ ~discarded
  /\ discarded' = TRUE
  /\ scheduled' = FALSE
  /\ lastEvent' = Event("unmount", 0, FALSE)
  /\ UNCHANGED <<input, loading, currentTake, error, history, closure, crashed,
                 raised, issued, fate, origin, errored, errorReq, calc>>

TeardownNext == Next \/ Unmount

TeardownSpec == Init /\ [][TeardownNext]_vars

FairSpec == Spec /\ WF_vars(Render)

(* ------------- pure functions evaluated at render time ------------------ *)
\* strings are sequences of one-character strings

\* Array.prototype.join
RECURSIVE Join(_, _)
Join(parts, sep) ==
  IF parts = <<>> THEN <<>>
  ELSE IF Len(parts) = 1 THEN parts[1]
  ELSE parts[1] \o sep \o Join(Tail(parts), sep)

\* the concatenation of the strings pieces[lo], ..., pieces[hi]
RECURSIVE Concat(_, _, _)
Concat(pieces, lo, hi) ==
  IF lo > hi THEN <<>>
  ELSE IF lo = hi THEN pieces[lo]
  ELSE LET mid == (lo + hi) \div 2
       IN  Concat(pieces, lo, mid) \o Concat(pieces, mid + 1, hi)

\* String.prototype.startsWith
StartsWith(s, prefix) ==
  Len(prefix) <= Len(s) /\ SubSeq(s, 1, Len(prefix)) = prefix

\* a non-negative integer in a template literal: its decimal digits
DigitChar == <<"0", "1", "2", "3", "4", "5", "6", "7", "8", "9">>
RECURSIVE Digits(_)
Digits(n) ==
  IF n < 10 THEN <<DigitChar[n + 1]>>
  ELSE Digits(n \div 10) \o <<DigitChar[(n % 10) + 1]>>

\* String.prototype.toUpperCase on the letters a-z
UpperOf ==
  "a" :> "A" @@ "b" :> "B" @@ "c" :> "C" @@ "d" :> "D" @@ "e" :> "E" @@ "f" :> "F" @@
  "g" :> "G" @@ "h" :> "H" @@ "i" :> "I" @@ "j" :> "J" @@ "k" :> "K" @@ "l" :> "L" @@
  "m" :> "M" @@ "n" :> "N" @@ "o" :> "O" @@ "p" :> "P" @@ "q" :> "Q" @@ "r" :> "R" @@
  "s" :> "S" @@ "t" :> "T" @@ "u" :> "U" @@ "v" :> "V" @@ "w" :> "W" @@ "x" :> "X" @@
  "y" :> "Y" @@ "z" :> "Z"
ToUpperCase(s) ==
  [k \in 1..Len(s) |-> IF s[k] \in DOMAIN UpperOf THEN UpperOf[s[k]] ELSE s[k]]

\* confidence is a JSON number given in thousandths: k stands for k/1000.
\* The thousandths whose double product (k/1000) * 100 is the double just
\* below n + 0.5 (0.145 * 100 = 14.499999999999998), not the tie itself
ProductBelowTie == {145, 285, 565, 575}
Confidences == 0..1000

\* Math.round(x * 100) in IEEE-754 double arithmetic
MathRoundTimes100(k) ==
  IF k \in ProductBelowTie THEN k \div 10 ELSE (k + 5) \div 10

\* VerdictBadge: const pct = Math.round(confidence * 100)
BadgePct(k) == MathRoundTimes100(k)
\* buildShareUrl: const confidence = Math.round(entry.result.confidence * 100)
SharePct(k) == MathRoundTimes100(k)
\* generateMetadata: const confidence = Math.round(take.confidence * 100)
MetadataPct(k) == MathRoundTimes100(k)

\* application/x-www-form-urlencoded: the characters left as they are
Unreserved ==
  {"0", "1", "2", "3", "4", "5", "6", "7", "8", "9", "a", "b", "c", "d", "e", "f", "g", "h", "i", "j", "k", "l", "m", "n", "o", "p", "q", "r", "s", "t", "u", "v", "w", "x", "y", "z", "A", "B", "C", "D", "E", "F", "G", "H", "I", "J", "K", "L", "M", "N", "O", "P", "Q", "R", "S", "T", "U", "V", "W", "X", "Y", "Z", "*", "-", ".", "_"}
\* the hexadecimal code of the other characters (all one byte in UTF-8)
PercentCode ==
  "\n" :> <<"0", "A">> @@
  "\"" :> <<"2", "2">> @@
  "#" :> <<"2", "3">> @@
  "%" :> <<"2", "5">> @@
  "&" :> <<"2", "6">> @@
  "'" :> <<"2", "7">> @@
  "(" :> <<"2", "8">> @@
  ")" :> <<"2", "9">> @@
  "+" :> <<"2", "B">> @@
  "," :> <<"2", "C">> @@
  "/" :> <<"2", "F">> @@
  ":" :> <<"3", "A">> @@
  "=" :> <<"3", "D">> @@
  "?" :> <<"3", "F">> @@
  "@" :> <<"4", "0">>

EncodeChar(c) ==
  IF c = " " THEN <<"+">>
  ELSE IF c \in Unreserved THEN <<c>>
  ELSE <<"%">> \o PercentCode[c]

\* the serializer with the characters outside a-z, A-Z, 0-9 left raw
Serialize_Raw(s) == s

\* the urlencoded byte serializer
Serialize(s) == Concat([k \in 1..Len(s) |-> EncodeChar(s[k])], 1, Len(s))

\* new URLSearchParams({ text, url }).toString()
URLSearchParamsToString(pairs) ==
  Join([k \in 1..Len(pairs) |->
          Serialize(pairs[k][1]) \o <<"=">> \o Serialize(pairs[k][2])], <<"&">>)

IntentBase == <<"h", "t", "t", "p", "s", ":", "/", "/", "x", ".", "c", "o",
  "m", "/", "i", "n", "t", "e", "n", "t", "/", "p", "o", "s", "t">>
Tag == <<"F", "a", "c", "t", "-", "c", "h", "e", "c", "k", "e", "d", " ",
  "b", "y", " ", "@", "L", "e", "G", "M", "L", "a", "b">>
TakePath == <<"/", "t", "a", "k", "e", "/">>

\* the five lines of the share text
ShareText(take, verdict, confidence, roast) ==
  LET header == <<"\"">> \o take \o <<"\"", " ", "-", " ">> \o ToUpperCase(verdict)
                \o <<" ", "(">> \o Digits(SharePct(confidence)) \o <<"%", ")">>
  IN  Join(<<header, <<>>, roast, <<>>, Tag>>, <<"\n">>)

\* buildShareUrl(entry) of the history view; window is None on the server
\* and Some(origin) in a browser
buildShareUrl(entry, window) ==
  LET winOrigin == IF window # None THEN window[1] ELSE <<>>
      takeUrl == winOrigin \o TakePath \o Digits(entry.result.take_id)
      text == ShareText(entry.take, entry.result.verdict,
                        entry.result.confidence, entry.result.roast)
  IN  IntentBase \o <<"?">>
        \o URLSearchParamsToString(<< <<<<"t", "e", "x", "t">>, text>>,
          <<<<"u", "r", "l">>, takeUrl>> >>)

\* buildShareUrl(take, pageUrl) of the permalink view
buildShareUrlTakeView(take, pageUrl) ==
  LET text == ShareText(take.take_text, take.verdict, take.confidence, take.roast)
  IN  IntentBase \o <<"?">>
        \o URLSearchParamsToString(<< <<<<"t", "e", "x", "t">>, text>>,
          <<<<"u", "r", "l">>, pageUrl>> >>)

\* reading a URL back: new URL(u).searchParams
IndexOf(s, c) ==
  IF \E k \in 1..Len(s) : s[k] = c
  THEN CHOOSE k \in 1..Len(s) : s[k] = c /\ \A j \in 1..(k - 1) : s[j] # c
  ELSE 0
RECURSIVE Split(_, _)
Split(s, c) ==
  LET k == IndexOf(s, c)
  IN  IF k = 0 THEN <<s>>
      ELSE <<SubSeq(s, 1, k - 1)>> \o Split(SubSeq(s, k + 1, Len(s)), c)
CharOfCode(h) == CHOOSE c \in DOMAIN PercentCode : PercentCode[c] = h
\* the urlencoded parser's decoding: "+" is a space, %XX is the character of
\* that code, and the two digits of an escape are consumed with it
Deserialize(s) ==
  LET escapeAt(j) ==
        /\ s[j] = "%"
        /\ j + 2 <= Len(s)
        /\ \E c \in DOMAIN PercentCode : PercentCode[c] = <<s[j + 1], s[j + 2]>>
      consumed(k) ==
        \/ k >= 2 /\ escapeAt(k - 1)
        \/ k >= 3 /\ escapeAt(k - 2)
      piece(k) ==
        IF consumed(k) THEN <<>>
        ELSE IF s[k] = "+" THEN <<" ">>
        ELSE IF escapeAt(k) THEN <<CharOfCode(<<s[k + 1], s[k + 2]>>)>>
        ELSE <<s[k]>>
  IN  Concat([k \in 1..Len(s) |-> piece(k)], 1, Len(s))
SearchParams(u) ==
  LET q == IndexOf(u, "?")
      fields == Split(SubSeq(u, q + 1, Len(u)), "&")
  IN  [k \in 1..Len(fields) |->
         LET e == IndexOf(fields[k], "=")
         IN  IF e = 0 THEN <<Deserialize(fields[k]), <<>>>>
             ELSE <<Deserialize(SubSeq(fields[k], 1, e - 1)),
                    Deserialize(SubSeq(fields[k], e + 1, Len(fields[k])))>>]
UrlBase(u) == SubSeq(u, 1, IndexOf(u, "?") - 1)

\* process.env.NEXT_PUBLIC_API_URL ?? "http://localhost:8000"
DefaultApiUrl == <<"h", "t", "t", "p", ":", "/", "/", "l", "o", "c", "a",
  "l", "h", "o", "s", "t", ":", "8", "0", "0", "0">>
Http == <<"h", "t", "t", "p">>
ApiBase(env) == IF env # None THEN env[1] ELSE DefaultApiUrl

\* api.ts: const API_BASE
GatewayBase(env) == ApiBase(env)

\* the img src of AnalysisResult testing for "https" instead of "http"
HistoryChartSrc_Https(chart_url, env) ==
  IF StartsWith(chart_url, Http \o <<"s">>) THEN chart_url
  ELSE ApiBase(env) \o chart_url

\* AnalysisResult: the img src of the history view
HistoryChartSrc(chart_url, env) ==
  IF StartsWith(chart_url, Http) THEN chart_url
  ELSE ApiBase(env) \o chart_url

\* TakeView: the img src of the permalink view
TakeViewChartSrc(chart_url, env) ==
  IF StartsWith(chart_url, Http) THEN chart_url
  ELSE ApiBase(env) \o chart_url

\* generateMetadata: imageUrl of openGraph and twitter
MetadataImageUrl(chart_url, env) ==
  IF StartsWith(chart_url, Http) THEN chart_url
  ELSE ApiBase(env) \o chart_url

(* the arguments the pure functions are evaluated on *)
Takes ==
  { <<"J", "o", "k", "i", "c", " ", "i", "s", " ", "t", "h", "e", " ", "b",
    "e", "s", "t", " ", "c", "e", "n", "t", "e", "r">>,
    <<"a", "&", "b", "=", "c", " ", "+", "1", "%">>,
    <<"\"", "q", "\"", "\n", "#", "?">> }
Roasts ==
  { <<"N", "u", "m", "b", "e", "r", "s", " ", "d", "o", "n", "'", "t", " ", "l", "i", "e", ".">>,
    <<"5", "0", "%", " ", "o", "f", " ", "1", "+", "1", " ", "&", " ", "m", "o", "r", "e">> }
VerdictTexts ==
  { <<"t", "r", "a", "s", "h">>, <<"v", "a", "l", "i", "d">>, <<"m", "i",
    "d">>, <<"g", "o", "a", "t">> }
ShareConfidences == {0, 4, 145, 500, 820, 956, 1000}
PageOrigins ==
  { <<"h", "t", "t", "p", "s", ":", "/", "/", "l", "e", "g", "m", ".", "a", "p", "p">>,
    <<"h", "t", "t", "p", ":", "/", "/", "l", "o", "c", "a", "l", "h", "o",
      "s", "t", ":", "3", "0", "0", "0">> }
ShareEntries ==
  [take : Takes,
   result : [verdict : VerdictTexts, confidence : ShareConfidences,
             roast : Roasts, take_id : TakeIds]]
ChartUrls ==
  { <<"/", "c", "h", "a", "r", "t", "s", "/", "4", "2", ".", "p", "n", "g">>,
    <<"c", ".", "p", "n", "g">>, <<"h">>,
    <<"h", "t", "t", "p", "s", ":", "/", "/", "c", "d", "n", ".", "x", "/",
      "4", "2", ".", "p", "n", "g">>,
    <<"h", "t", "t", "p", "x">>, <<"H", "T", "T", "P", ":", "/", "/", "x">> }
ApiEnvs ==
  { None, Some(<<>>), Some(<<"h", "t", "t", "p", "s", ":", "/", "/", "a",
    "p", "i", ".", "e", "x", "a", "m", "p", "l", "e", ".", "c", "o", "m">>) }

\* the answers of the network to one fetch, with more statuses, bodies and
\* transport errors than a session is run on
GatewayStatuses == {200, 204, 404, 500}
GatewayBodyTexts == {"boom", ""}
GatewayTransportMessages == {"Failed to fetch", "Load failed"}
GatewayOutcomes ==
  [kind : {"reject"}, message : GatewayTransportMessages]
  \cup
  [kind : {"response"}, status : GatewayStatuses,
   text : {None} \cup {Some(b) : b \in GatewayBodyTexts},
   json : {None} \cup {Some(r) : r \in WireRecords}]

\* the error state after handleSubmit has settled on the answer o
LastErrorAfter(o) ==
  Settle([history |-> <<>>, error |-> None, loading |-> TRUE,
          currentTake |-> Some(<<"a">>), raised |-> FALSE, input |-> <<>>],
         <<"a">>, request(o)).error

\* one evaluation per behaviour: the functions keep no state between calls
session == <<input, loading, currentTake, error, history, closure, scheduled,
             crashed, raised, issued, fate, origin, errored, errorReq,
             lastEvent, discarded>>

CallRequest(o) ==
  /\ fn = "none"
  /\ fn' = "request"
  /\ arg' = o
  /\ out' = request(o)
  /\ UNCHANGED session

CallLastError(o1, o2) ==
  /\ fn = "none"
  /\ fn' = "lastError"
  /\ arg' = <<o1, o2>>
  /\ out' = <<LastErrorAfter(o1), LastErrorAfter(o2)>>
  /\ UNCHANGED session

CallPercent(k) ==
  /\ fn = "none"
  /\ fn' = "percent"
  /\ arg' = k
  /\ out' = [badge |-> BadgePct(k), share |-> SharePct(k),
             metadata |-> MetadataPct(k)]
  /\ UNCHANGED session

CallShare(entry, o1, o2) ==
  /\ fn = "none"
  /\ fn' = "share"
  /\ arg' = [entry |-> entry, origins |-> <<o1, o2>>]
  /\ out' = [first |-> buildShareUrl(entry, Some(o1)),
             second |-> buildShareUrl(entry, Some(o2)),
             takeView |-> buildShareUrlTakeView(
                            [take_text |-> entry.take,
                             verdict |-> entry.result.verdict,
                             confidence |-> entry.result.confidence,
                             roast |-> entry.result.roast],
                            o1 \o TakePath \o Digits(entry.result.take_id))]
  /\ UNCHANGED session

CallChart(chart_url, env) ==
  /\ fn = "none"
  /\ fn' = "chart"
  /\ arg' = [chart_url |-> chart_url, env |-> env]
  /\ out' = [history |-> HistoryChartSrc(chart_url, env),
             takeView |-> TakeViewChartSrc(chart_url, env),
             metadata |-> MetadataImageUrl(chart_url, env),
             gateway |-> GatewayBase(env)]
  /\ UNCHANGED session

CalcNext ==
  \/ \E o \in GatewayOutcomes : CallRequest(o)
  \/ \E o1, o2 \in GatewayOutcomes : CallLastError(o1, o2)
  \/ \E k \in Confidences : CallPercent(k)
  \/ \E entry \in ShareEntries, o1, o2 \in PageOrigins : CallShare(entry, o1, o2)
  \/ \E c \in ChartUrls, env \in ApiEnvs : CallChart(c, env)

CalcSpec == Init /\ [][CalcNext]_vars

(* ------------------------------ claims --------------------------------- *)
Range(f) == {f[k] : k \in DOMAIN f}
IsPrefix(s, t) == Len(s) <= Len(t) /\ SubSeq(t, 1, Len(s)) = s

\* the step just taken is a call of handleSubmit
SubmitStep == lastEvent'.op = "submit"
\* the step just taken is a call of handleSubmit that passed the guard
AcceptedStep == lastEvent' # lastEvent /\ lastEvent'.op = "submit" /\ lastEvent'.ok
\* the step just taken resumed a handler of the mounted component
ResolveStep(ok) ==
  /\ lastEvent' # lastEvent
  /\ lastEvent'.op = "resolve"
  /\ lastEvent'.ok = ok
  /\ ~crashed

\* the ids of the fulfilled requests, in order of issue
RECURSIVE Ascending(_)
Ascending(S) ==
  IF S = {} THEN <<>>
  ELSE LET m == CHOOSE x \in S : \A y \in S : x <= y
       IN  <<m>> \o Ascending(S \ {m})
OkIds == {i \in Ids : fate[i].st = "ok"}

\* C1: a submit call made while a request is in flight changes nothing and
\* issues no request, so at most one analyze request is ever in flight; also
\* when the call is handled by a closure older than the setLoading(true).
C1_MutualExclusion ==
  /\ [](Cardinality(InFlight) <= 1)
  /\ [][(SubmitStep /\ InFlight # {})
          => UNCHANGED <<input, loading, currentTake, error, history, issued, fate>>]_vars

C3_AppendOnly ==
  [][IsPrefix(history, history') /\ Len(history') <= Len(history) + 1]_vars

C3_Witness ==
  /\ Len(history) = 2
  /\ history[1] # history[2]
  /\ lastEvent.op = "resolve"

\* C4: a successful resolution appends exactly one entry {take, result} with
\* the trimmed text that was sent in the request body and the record that was
\* returned, clears loading and currentTake, and leaves error unset.
C4_SuccessEffect ==
  [][ResolveStep(TRUE) =>
       LET i == lastEvent'.id IN
       /\ history' = Append(history, [take |-> issued[i].text,
                                      result |-> fate'[i].json[1]])
       /\ issued[i].body.take = issued[i].text
       /\ loading' = FALSE
       /\ currentTake' = None
       /\ error' = None]_vars

\* C5: a failed resolution leaves history unchanged, clears loading and
\* currentTake, sets error to a non-empty message and raises nothing.
C5_FailureEffect ==
  [][ResolveStep(FALSE) =>
       /\ history' = history
       /\ loading' = FALSE
       /\ currentTake' = None
       /\ error' # None
       /\ error'[1] # ""
       /\ raised' = FALSE]_vars

C5_Witness ==
  /\ lastEvent.op = "resolve"
  /\ ~lastEvent.ok
  /\ ~crashed
  /\ error # None
  /\ Len(history) = 1

\* C6: a submit call whose input is empty or white space only changes no
\* session state (an error that is set stays set) and issues no request.
C6_EmptyInputNoOp ==
  [][(SubmitStep /\ Trim(closure.input) = <<>>)
       => UNCHANGED <<input, loading, currentTake, error, history, closure,
                      scheduled, issued, fate>>]_vars

C6_Witness ==
  /\ lastEvent.op = "submit"
  /\ ~lastEvent.ok
  /\ closure.input # <<>>
  /\ Trim(closure.input) = <<>>
  /\ ~closure.loading
  /\ error # None

\* C7: an accepted submit call clears error in the step that sets loading and
\* currentTake and issues the request, and the message that was set when a
\* request was issued is never there while that request is in flight.
C7_ErrorClearsOnRetry ==
  /\ [][AcceptedStep =>
          LET i == lastEvent'.id IN
          /\ error' = None
          /\ loading' = TRUE
          /\ currentTake' = Some(Trim(closure.input))
          /\ i \notin Ids
          /\ fate'[i] = Pending]_vars
  /\ [](\A i \in InFlight :
          (error # None /\ issued[i].oldErr # 0) => errorReq # issued[i].oldErr)

C7_Witness ==
  /\ lastEvent.op = "submit"
  /\ lastEvent.ok
  /\ issued[lastEvent.id].oldErr # 0
  /\ lastEvent.id \in InFlight
  /\ error = None

\* C8: every accepted submission is in exactly one of three conditions: in
\* flight with loading and currentTake set for it, appended to history, or
\* recorded as error.
IsPending(i) ==
  fate[i].st = "inflight" /\ loading /\ currentTake = Some(issued[i].text)
IsAppended(i) == i \in Range(origin)
IsErrored(i) == i \in errored
C8_ExactlyOneOutcome ==
  ~crashed =>
    \A i \in Ids :
      /\ IsPending(i) \/ IsAppended(i) \/ IsErrored(i)
      /\ ~(IsPending(i) /\ IsAppended(i))
      /\ ~(IsPending(i) /\ IsErrored(i))
      /\ ~(IsAppended(i) /\ IsErrored(i))

\* C9: after every resolution the session comes to a state with loading and
\* currentTake cleared in which a submit call with non-empty text is accepted.
AcceptsSubmit == ~crashed /\ ~closure.loading
C9_ReturnToIdle ==
  (lastEvent.op = "resolve") ~> (~loading /\ currentTake = None /\ AcceptsSubmit)

\* C10: every entry of history has a verdict of the closed set.
C10_ClosedVerdictSet ==
  \A k \in 1..Len(history) : history[k].result.verdict \in Verdict

\* C13: an accepted submit call issues exactly one request and clears the
\* input, nothing but an accepted submit call issues a request, and a failed
\* resolution issues none and leaves the input as it is.
C13_NoAutomaticRetry ==
  [][/\ AcceptedStep => (Len(issued') = Len(issued) + 1 /\ input' = <<>>)
     /\ Len(issued') # Len(issued) => AcceptedStep
     /\ ResolveStep(FALSE) => (issued' = issued /\ input' = input)]_vars

C13_Witness ==
  /\ lastEvent.op = "resolve"
  /\ ~lastEvent.ok
  /\ ~crashed
  /\ Len(issued) = 1
  /\ issued[1].text # <<>>
  /\ InFlight = {}
  /\ input = <<>>

C19_RenderKeysDistinct ==
  \A j, k \in 1..Len(history) : j # k => Keys[j] # Keys[k]

C19_Witness ==
  /\ Len(history) = 2
  /\ history[1].result.take_id = history[2].result.take_id

\* C20: as long as a request stays unresolved, loading and currentTake stay
\* set for it, no further request is issued, and history and error do not
\* change.
C20_HungRequest ==
  [][\A i \in InFlight \cap InFlight' :
       /\ loading'
       /\ currentTake' = Some(issued[i].text)
       /\ issued' = issued
       /\ history' = history
       /\ error' = error]_vars

\* the message request() fails with on a non-success status
ApiMessage(o) ==
  "API " \o ToString(o.status) \o ": "
    \o (IF o.text = None THEN "Unknown error" ELSE o.text[1])

\* C11 as stated: on a non-success status request() fails with the status
\* code and the body text ("Unknown error" when the body cannot be read), and
\* on a success status it returns the parsed JSON and raises no error.
C11_GatewayServiceError ==
  (fn = "request" /\ arg.kind = "response")
    => IF ResOk(arg)
       THEN out.ok /\ (arg.json # None => out.value = arg.json[1])
       ELSE ~out.ok /\ out.message = ApiMessage(arg)

\* C11 amended: on a non-success status request() fails with the status code
\* and the body text ("Unknown error" when the body cannot be read); on a
\* success status it returns the parsed JSON when the body parses as JSON and
\* fails with the parser's error when it does not.
C11_GatewayErrorOrParsedBody ==
  (fn = "request" /\ arg.kind = "response")
    => IF ~ResOk(arg) THEN ~out.ok /\ out.message = ApiMessage(arg)
       ELSE IF arg.json # None THEN out.ok /\ out.value = arg.json[1]
       ELSE ~out.ok /\ out.message = JsonParseMessage

C11_Witness ==
  /\ fn = "request"
  /\ arg.kind = "response"
  /\ arg.status = 204
  /\ arg.json = None
  /\ ~out.ok

\* C12: after a failed submission lastError is the status code plus the body
\* text when a response with a non-success status was received, and after a
\* transport failure it is one fixed message, the same whatever the transport
\* error was.
C12_ErrorMessageDerivation ==
  fn = "lastError"
    => /\ \A j \in 1..2 :
            (arg[j].kind = "response" /\ ~ResOk(arg[j]))
              => out[j] = Some(ApiMessage(arg[j]))
       /\ (arg[1].kind = "reject" /\ arg[2].kind = "reject")
            => (out[1] # None /\ out[1] = out[2])

\* C15: the share URL is the intent base followed by the parameters text and
\* url; read back from the URL, text is the header "<take>" - <VERDICT>
\* (<percent>%), an empty line, the roast, an empty line and the attribution
\* tag, and url is the permalink.
C15_ShareTextRoundTrip ==
  fn = "share"
    => LET e == arg.entry
           header == <<"\"">> \o e.take \o <<"\"">> \o <<" ", "-", " ">>
                       \o ToUpperCase(e.result.verdict) \o <<" ", "(">>
                       \o Digits(BadgePct(e.result.confidence)) \o <<"%", ")">>
           text == header \o <<"\n", "\n">> \o e.result.roast
                     \o <<"\n", "\n">> \o Tag
           permalink == arg.origins[1] \o <<"/", "t", "a", "k", "e", "/">>
                          \o Digits(e.result.take_id)
       IN  \A u \in {out.first, out.takeView} :
             /\ UrlBase(u) = <<"h", "t", "t", "p", "s", ":", "/", "/", "x",
               ".", "c", "o", "m", "/", "i", "n", "t", "e", "n", "t", "/",
               "p", "o", "s", "t">>
             /\ SearchParams(u) = << <<<<"t", "e", "x", "t">>, text>>,
               <<<<"u", "r", "l">>, permalink>> >>

C15_Witness ==
  /\ fn = "share"
  /\ \E k \in 1..Len(arg.entry.take) : arg.entry.take[k] = "&"
  /\ \E k \in 1..Len(arg.entry.result.roast) : arg.entry.result.roast[k] = "%"
  /\ \E k \in 1..(Len(out.first) - 2) :
       SubSeq(out.first, k, k + 2) = <<"%", "2", "6">>

\* C16: a chart_url that starts with "http" is displayed unchanged and any
\* other is prefixed with the API base; the history view, the permalink view
\* and the permalink metadata give the same URL, and the base is the one the
\* gateway sends its requests to.
C16_ChartUrlResolution ==
  fn = "chart"
    => LET resolved == IF StartsWith(arg.chart_url, <<"h", "t", "t", "p">>)
                       THEN arg.chart_url
                       ELSE out.gateway \o arg.chart_url
       IN  /\ out.history = resolved
           /\ out.takeView = resolved
           /\ out.metadata = resolved

C16_Witness ==
  /\ fn = "chart"
  /\ arg.chart_url = <<"c", ".", "p", "n", "g">>
  /\ arg.env = None
  /\ out.history = DefaultApiUrl \o <<"c", ".", "p", "n", "g">>
  /\ out.metadata = out.history

\* C17: the percent is confidence * 100 rounded half up, an integer in
\* 0..100, and the badge, the share text and the permalink metadata show the
\* same percent.
C17_PercentRounding ==
  fn = "percent"
    => /\ out.badge = (arg * 100 + 500) \div 1000
       /\ out.badge \in 0..100
       /\ out.share = out.badge
       /\ out.metadata = out.badge

\* C18: two evaluations of buildShareUrl on the same history entry return
\* the same URL, whatever the page origin is at each evaluation.
C18_ShareUrlDeterminism ==
  fn = "share" => out.first = out.second

\* what the render shows below the history
SkeletonDue == loading /\ currentTake # None
BannerDue == error # None /\ ~loading

\* C21: in every state a set error implies that loading is false, loading is
\* true exactly when currentTake is set, a set error has its banner due, and
\* the banner and the loading skeleton are never both due.
C21_ErrorPendingExclusive ==
  /\ error # None => ~loading
  /\ loading <=> currentTake # None
  /\ error # None => BannerDue
  /\ ~(BannerDue /\ SkeletonDue)

C21_Witness ==
  /\ lastEvent.op = "resolve"
  /\ ~lastEvent.ok
  /\ error # None
  /\ BannerDue
  /\ ~SkeletonDue
  /\ InFlight # {}

====
